---- MODULE Spec2Model ----
(***************************************************************************)
(* Model of scripts/firecrawl/crawl.mjs, the crawl job orchestrator:       *)
(* main() drives up to two runs of the firecrawl subprocess through        *)
(* runCrawlAttempt (spawn, job id scraping, three-stage timeout guard),    *)
(* fetches and dumps the remote status, cancels stalled jobs, retries with *)
(* tightened flags, scans the crawl output for listing-policy violations   *)
(* and writes meta.json before process.exit.                               *)
(*                                                                         *)
(* One action per event-loop step: a timer callback, a child event         *)
(* handler, or the stretch of main() between two awaits.                   *)
(*                                                                         *)
(* Also modelled: the process-group cleanup of crawl.mjs (cleanupChildren  *)
(* on exit, SIGINT and SIGTERM), and scripts/relaunch/from-url.mjs, the    *)
(* pipeline that runs the orchestrator as its crawl step.  ScanSpec runs    *)
(* the policy scan over every small crawl.json, ChunkSpec the job id        *)
(* capture over every chunking of the child's output.                      *)
(***************************************************************************)
EXTENDS Integers, Sequences, FiniteSets, TLC

\* ------------------------------------------------------------------ values

\* JavaScript null / undefined for string-valued slots.
Null == "null"

\* A JSON config value: absent, a number, or a string.
Absent == [kind |-> "absent"]
Num(n) == [kind |-> "number", v |-> n]
Str(s) == [kind |-> "string", s |-> s]
IsNumber(x) == x.kind = "number"
IsString(x) == x.kind = "string"

Min(a, b) == IF a <= b THEN a ELSE b
Max(a, b) == IF a >= b THEN a ELSE b

Attempts == 1..2

\* ------------------------------------------------------------------ bounds

\* Largest page limit / depth a RunConfig of the model carries.
MaxLimit == 10
MaxDepthValue == 3
\* delayMs values are multiples of DelayStep, up to MaxDelaySteps of them.
DelayStep == 500
MaxDelaySteps == 3

\* ------------------------------------------------------- program constants

RetryLimit == 8
RetryMaxDepth == 2
RetryMaxConcurrency == 1
RetryDelayMs == 1000
ForcedExitCode == 137
UsageExitCode == 1
FailedExitCode == 1
ViolationExitCode == 2
FatalExitCode == 1
NullCodeExit == 1
ErrorEventExit == 1
InitialLastExitCode == 1
InterruptExitCode == 130
TerminateExitCode == 143
\* The delays of the three timers of runCrawlAttempt.
TimeoutSlackSeconds == 5
MsPerSecond == 1000
KillDelayMs == 5000
ForceDelayMs == 2000

\* ------------------------------------------------------------ RunConfig

LimitValues == {Absent} \cup {Num(n) : n \in (0 - 1)..MaxLimit}
DepthValues == {Absent} \cup {Num(n) : n \in 0..MaxDepthValue}
DelayValues == {Absent} \cup {Num(k * DelayStep) : k \in 0..MaxDelaySteps}
SitemapValues == {Absent, Str("include")}
RetrySitemapValues == {Absent, Str("include"), Str("")}
\* cfg.timeout: absent, not positive, or a positive number of seconds.
TimeoutValues == {Absent, Num(0), Num(180)}

\* Every RunConfig of the model (the fields getRetryOverrides and the
\* timeout guard read; pollInterval, includePaths are passed through).
AllConfigs ==
  [limit : LimitValues, maxDepth : DepthValues, delayMs : DelayValues,
   maxConcurrency : {Absent, Num(2)}, sitemap : SitemapValues,
   retrySitemap : RetrySitemapValues, timeout : {Num(180)}]

\* cfg.timeout for one attempt on its own: also negative and non-numeric.
GuardTimeoutValues == TimeoutValues \cup {Num(0 - 1), Str("180")}

\* The RunConfigs the orchestrator runs are taken from: the documented
\* defaults, with each kind of timeout.
RunConfigs ==
  [limit : {Num(20)}, maxDepth : {Absent}, delayMs : {Num(500)},
   maxConcurrency : {Num(2)}, sitemap : {Str("include")},
   retrySitemap : {Absent}, timeout : TimeoutValues]

GuardConfigs ==
  [limit : {Num(20)}, maxDepth : {Absent}, delayMs : {Num(500)},
   maxConcurrency : {Num(2)}, sitemap : {Str("include")},
   retrySitemap : {Absent}, timeout : GuardTimeoutValues]

\* getRetryOverrides(cfg): the overrides of attempt 2.
getRetryOverridesMaxLimit(c) ==
  [limit |-> IF IsNumber(c.limit) THEN Num(Max(c.limit.v, RetryLimit)) ELSE Num(RetryLimit),
   maxDepth |-> IF IsNumber(c.maxDepth) THEN Num(Min(c.maxDepth.v, RetryMaxDepth)) ELSE Num(RetryMaxDepth),
   maxConcurrency |-> Num(RetryMaxConcurrency),
   delayMs |-> IF IsNumber(c.delayMs) THEN Num(Max(c.delayMs.v, RetryDelayMs)) ELSE Num(RetryDelayMs),
   sitemap |-> IF IsString(c.retrySitemap) THEN c.retrySitemap ELSE Str("skip")]

getRetryOverrides(c) ==
  [limit |-> IF IsNumber(c.limit) THEN Num(Min(c.limit.v, RetryLimit)) ELSE Num(RetryLimit),
   maxDepth |-> IF IsNumber(c.maxDepth) THEN Num(Min(c.maxDepth.v, RetryMaxDepth)) ELSE Num(RetryMaxDepth),
   maxConcurrency |-> Num(RetryMaxConcurrency),
   delayMs |-> IF IsNumber(c.delayMs) THEN Num(Max(c.delayMs.v, RetryDelayMs)) ELSE Num(RetryDelayMs),
   sitemap |-> IF IsString(c.retrySitemap) THEN c.retrySitemap ELSE Str("skip")]

\* The overrides main() passes for an attempt: {} for attempt 1.
NoOverrides == [x \in {} |-> Absent]
attemptOverrides(c, a) == IF a = 2 THEN getRetryOverrides(c) ELSE NoOverrides

\* { ...cfg, ...overrides }: a key of overrides replaces cfg's.
merge(c, o) ==
  [k \in DOMAIN c \cup DOMAIN o |-> IF k \in DOMAIN o THEN o[k] ELSE c[k]]

\* buildCrawlArgs: the flags pushed after the fixed crawl arguments; a flag is
\* pushed only for a number (a non-empty string for --sitemap).
NoFlag == [kind |-> "noflag"]
numFlag(m, k) == IF k \in DOMAIN m /\ IsNumber(m[k]) THEN m[k] ELSE NoFlag
buildCrawlArgs(c, o) ==
  LET merged == merge(c, o) IN
  [limit |-> numFlag(merged, "limit"),
   maxDepth |-> numFlag(merged, "maxDepth"),
   delay |-> numFlag(merged, "delayMs"),
   maxConcurrency |-> numFlag(merged, "maxConcurrency"),
   timeout |-> numFlag(merged, "timeout"),
   sitemap |-> IF "sitemap" \in DOMAIN merged /\ IsString(merged.sitemap)
                  /\ merged.sitemap.s # ""
               THEN merged.sitemap ELSE NoFlag]

NoArgs == [kind |-> "notbuilt"]

\* ------------------------------------------------- crawl output and policy

\* A URL is the sequence of its path segments; a page's text is known by
\* which of the scanner's three patterns it matches.
Url(segs) == [kind |-> "string", segs |-> segs]
Text(s, c, p) == [strong |-> s, content |-> c, price |-> p]
PlainText == Text(FALSE, FALSE, FALSE)

CleanUrl == Url(<<"ueber-uns">>)
ListingUrl == Url(<<"kaufen", "haus-1">>)
UpperListingUrl == Url(<<"KAUFEN">>)

Page(u, t) == [url |-> u, text |-> t]

\* crawl.json: missing, not JSON, or a parsed result with its page list.
Missing == [kind |-> "missing"]
Garbage == [kind |-> "garbage"]
Doc(pages) == [kind |-> "json", pages |-> pages]

\* What the crawl tool leaves at crawl.json in the model: no JSON, a clean
\* site, a site with a listing URL (in upper case, behind a clean page), a
\* site whose text matches the listing-field pattern.
CleanDoc == Doc(<<Page(CleanUrl, PlainText)>>)
ListingUrlDoc == Doc(<<Page(CleanUrl, PlainText), Page(UpperListingUrl, PlainText)>>)
ListingTextDoc == Doc(<<Page(CleanUrl, Text(TRUE, FALSE, FALSE))>>)
CrawlOutputs == {Garbage, CleanDoc, ListingUrlDoc, ListingTextDoc}

\* FALLBACK_FORBIDDEN_SEGMENTS after normalizePathPatterns (lowercased).
ForbiddenSegments == {"kaufen", "mieten", "angebote"}

toLowerCase(seg) == IF seg = "KAUFEN" THEN "kaufen" ELSE seg

\* url.toLowerCase().includes(segment) for some forbidden segment.
MatchesForbidden(u) ==
  \E i \in DOMAIN u.segs : toLowerCase(u.segs[i]) \in ForbiddenSegments

RECURSIVE collectUrls(_)
\* collectUrls: the url of every node that has a string url, in tree order.
collectUrls(pages) ==
  IF pages = << >> THEN << >>
  ELSE (IF IsString(Head(pages).url) THEN <<Head(pages).url>> ELSE << >>)
       \o collectUrls(Tail(pages))

collectPageEntries(doc) == doc.pages

UrlReason == "URL matched forbidden listing pattern"
StrongReason == "Content looked like a listing (listing field keyword)"
PriceReason == "Content looked like a listing (price + listing keyword)"

RECURSIVE urlViolationReasons(_)
\* urls.filter(forbidden).map(u => ({url: u, reason}))
urlViolationReasons(urls) ==
  IF urls = << >> THEN << >>
  ELSE (IF MatchesForbidden(Head(urls))
        THEN <<[url |-> Head(urls), reason |-> UrlReason]>> ELSE << >>)
       \o urlViolationReasons(Tail(urls))

\* url ?? 'unknown', line 130.
UnknownUrl == Url(<<"unknown">>)

\* The reason of a flagged page, lines 131-135.
listingReasonPriceFirst(hitUrl, hitStrong, hitContent) ==
  IF hitUrl THEN UrlReason ELSE IF hitContent THEN PriceReason ELSE StrongReason

listingReason(hitUrl, hitStrong, hitContent) ==
  IF hitUrl THEN UrlReason ELSE IF hitStrong THEN StrongReason ELSE PriceReason

RECURSIVE findListingContentViolations(_)
\* findListingContentViolations, lines 117-140, over the page records.
findListingContentViolations(pages) ==
  IF pages = << >> THEN << >>
  ELSE LET page == Head(pages)
           hitUrl == IsString(page.url) /\ MatchesForbidden(page.url)
           hitStrong == page.text.strong
           hitContent == page.text.content /\ page.text.price
       IN (IF hitUrl \/ hitStrong \/ hitContent
           THEN <<[url |-> IF IsString(page.url) THEN page.url ELSE UnknownUrl,
                   reason |-> listingReason(hitUrl, hitStrong, hitContent)]>>
           ELSE << >>)
          \o findListingContentViolations(Tail(pages))

\* ---------------------------------------------------------- remote job API

StatusValues == {"scraping", "queued", "failed"}

\* What the status endpoint can answer when a request is made with a key.
StatusReplies ==
  {[ok |-> TRUE, http |-> 200, status |-> s, error |-> Null] : s \in StatusValues}
  \cup {[ok |-> FALSE, http |-> 500, status |-> Null, error |-> Null]}
CancelReplies == {[ok |-> TRUE, http |-> 200, status |-> Null, error |-> Null],
                  [ok |-> FALSE, http |-> 404, status |-> Null, error |-> Null]}

\* The errors endpoint answers as the status endpoint did (ok, or the same
\* HTTP error); its body has no status field.
ErrorsReply(sr) == [sr EXCEPT !.status = Null]

\* fetchJson without a credential: a failure result, no request.
NoKeyResponse ==
  [ok |-> FALSE, http |-> 401, status |-> Null,
   error |-> "FIRECRAWL_API_KEY not set"]

fetchJsonAlwaysRequests(key, reply) == reply

fetchJson(key, reply) == IF ~key THEN NoKeyResponse ELSE reply

NoResponse == [ok |-> FALSE, http |-> 0, status |-> Null, error |-> Null]

\* getStatusValue(statusResponse): null for a null response.
getStatusValueNever(resp) == Null

getStatusValue(resp) == resp.status

isStalledStatus(v) == v = "scraping" \/ v = "queued"

\* ------------------------------------------------------------------- state

VARIABLES
  pc,              \* where main() stands: start, spawn, await, fetch, classify,
                   \* cancel, finalize, exited (args: the flag-building runs)
  argsOk,          \* --url and --slug given and the slug valid
  apiKey,          \* FIRECRAWL_API_KEY is set
  cfg,             \* the RunConfig loaded by loadConfig
  attempt,         \* the loop variable of main()
  run,             \* per attempt: the closure state of runCrawlAttempt and its child
  flags,           \* per attempt: the flags buildCrawlArgs produced (NoArgs before)
  attempts,        \* main's attempts array (attemptMeta records)
  jobIds,          \* main's jobIds array
  success, fallbackNeeded, fallbackReason, lastExitCode,
  statusResponse,  \* what dumpStatusAndErrors returned for the current attempt
  stalled,         \* the classification of the current attempt
  files,           \* the artifact directory raw/firecrawl/<slug>
  oplog,           \* spawns, HTTP requests and artifact writes of this run, in order
  exitCode,        \* the code given to process.exit (-1 while none was given)
  groupLeader,     \* the orchestrator's pid is the id of its process group
  proc,            \* the orchestrator process: how it ended, the signal it
                   \* received, the calls of cleanupChildren
  pipe             \* the from-url pipeline around the orchestrator

vars == <<pc, argsOk, apiKey, cfg, attempt, run, flags, attempts, jobIds,
          success, fallbackNeeded, fallbackReason, lastExitCode,
          statusResponse, stalled, files, oplog, exitCode, groupLeader, proc,
          pipe>>

mainVars == <<attempt, attempts, jobIds, success, fallbackNeeded,
              fallbackReason, lastExitCode, statusResponse, stalled>>

NoResult == [kind |-> "pending"]

\* runCrawlAttempt before spawn.
IdleRun ==
  [spawned |-> FALSE, started |-> FALSE, alive |-> FALSE, errorPending |-> FALSE,
   jobId |-> Null, timedOut |-> FALSE, resolved |-> FALSE,
   timeoutId |-> "unset", killTimeoutId |-> "unset", forceTimer |-> "unset",
   timeoutMs |-> 0, killMs |-> 0, forceMs |-> 0,
   signals |-> << >>, result |-> NoResult,
   buffer |-> << >>, stdout |-> << >>, stderr |-> << >>]

\* The orchestrator process before any signal and before its exit.
IdleProc ==
  [orch |-> "running", received |-> Null, calls |-> 0, caught |-> 0,
   threw |-> FALSE]

\* The pipeline when the orchestrator is run on its own.
IdlePipe == [pc |-> "idle"]

\* A crawl.json a previous run for the same slug may have left behind.
StaleCrawlFiles == {Missing, Doc(<<Page(ListingUrl, PlainText)>>)}

InitCommon ==
  /\ attempt = 1
  /\ run = [i \in Attempts |-> IdleRun]
  /\ flags = [i \in Attempts |-> NoArgs]
  /\ attempts = << >>
  /\ jobIds = << >>
  /\ success = FALSE
  /\ fallbackNeeded = FALSE
  /\ fallbackReason = Null
  /\ lastExitCode = InitialLastExitCode
  /\ statusResponse = NoResponse
  /\ stalled = FALSE
  /\ oplog = << >>
  /\ exitCode = 0 - 1
  /\ proc = IdleProc
  /\ pipe = IdlePipe

Init ==
  /\ pc = "start"
  /\ argsOk \in BOOLEAN
  /\ apiKey \in BOOLEAN
  /\ groupLeader \in BOOLEAN
  /\ cfg \in RunConfigs
  /\ files \in [crawl : StaleCrawlFiles, status : {Missing}, errors : {Missing},
                violations : {Missing}, meta : {Missing}]
  /\ InitCommon

\* ------------------------------------------------------------- process exit

\* The processes cleanupChildren acts on: the orchestrator and its children
\* that are alive.  The children are spawned with detached: false, so they
\* are in the orchestrator's process group.
ProcState ==
  [leader |-> groupLeader, orch |-> proc.orch,
   alive |-> {i \in Attempts : run[i].alive},
   calls |-> proc.calls, caught |-> proc.caught, threw |-> proc.threw]

\* cleanupChildren, lines 11-18: process.kill(-process.pid, 'SIGKILL') signals
\* the process group whose id is the orchestrator's pid.  That group exists
\* when the orchestrator leads its group, and then every member is killed,
\* the orchestrator included; otherwise kill throws ESRCH, which is caught.
cleanupChildrenNoCatch(ps) ==
  IF ps.orch # "running" THEN ps
  ELSE IF ps.leader
  THEN [ps EXCEPT !.orch = "killed", !.alive = {}, !.calls = @ + 1]
  ELSE [ps EXCEPT !.orch = "crashed", !.threw = TRUE, !.calls = @ + 1]

cleanupChildren(ps) ==
  IF ps.orch # "running" THEN ps
  ELSE IF ps.leader
  THEN [ps EXCEPT !.orch = "killed", !.alive = {}, !.calls = @ + 1]
  ELSE [ps EXCEPT !.caught = @ + 1, !.calls = @ + 1]

\* process.exit: the 'exit' listener of line 21 runs, then the process ends
\* (unless the listener has killed it already).
processExit(ps) ==
  LET after == cleanupChildren(ps)
  IN IF after.orch = "running" THEN [after EXCEPT !.orch = "exited"] ELSE after

SetProcs(ps, sig) ==
  /\ proc' = [orch |-> ps.orch, received |-> sig, calls |-> ps.calls,
              caught |-> ps.caught, threw |-> ps.threw]
  /\ run' = [i \in Attempts |-> [run[i] EXCEPT !.alive = (i \in ps.alive)]]

\* process.exit(code): the exit listener runs and the orchestrator stops; no
\* handler runs afterwards.
Exit(code) ==
  /\ pc' = "exited"
  /\ exitCode' = code
  /\ SetProcs(processExit(ProcState), proc.received)

SignalExitCode(sig) ==
  IF sig = "SIGINT" THEN InterruptExitCode ELSE TerminateExitCode

\* The SIGINT and SIGTERM handlers, lines 22-29: cleanupChildren(), then
\* process.exit(130 or 143), whose exit listener calls cleanupChildren again.
OnSignal(sig) ==
  /\ pc \notin {"exited", "args"}
  /\ LET first == cleanupChildren(ProcState)
     IN IF first.orch = "running"
        THEN /\ SetProcs(processExit(first), sig)
             /\ exitCode' = SignalExitCode(sig)
        ELSE /\ SetProcs(first, sig)
             /\ UNCHANGED exitCode
  /\ pc' = "exited"
  /\ UNCHANGED <<argsOk, apiKey, cfg, groupLeader, pipe, flags, files, oplog,
                 mainVars>>

Running == pc \notin {"exited", "args"}

Op(kind, what, n) == [op |-> kind, what |-> what, attempt |-> n]

\* ------------------------------------------------------------ main: start

\* main, lines 342-365: parseArgs, the usage check, loadConfig, the locals.
ParseArgs ==
  /\ pc = "start"
  /\ IF ~argsOk
     THEN /\ Exit(UsageExitCode)
     ELSE /\ pc' = "spawn"
          /\ UNCHANGED <<exitCode, proc, run>>
  /\ UNCHANGED <<argsOk, apiKey, cfg, groupLeader, pipe, flags, files, oplog, mainVars>>

\* ------------------------------------------------------- runCrawlAttempt

TimeoutConfigured == IsNumber(cfg.timeout) /\ cfg.timeout.v > 0

\* main, lines 367-375, and runCrawlAttempt up to the registration of its
\* handlers: build the flags, spawn the child, arm the (T+5)s timer.  A spawn
\* that fails leaves no process and an 'error' event to come.
SpawnAttempt ==
  /\ pc = "spawn"
  /\ \E ok \in BOOLEAN :
       run' = [run EXCEPT ![attempt] =
                 [IdleRun EXCEPT !.spawned = TRUE, !.started = ok, !.alive = ok,
                                 !.errorPending = ~ok,
                                 !.timeoutId = IF TimeoutConfigured
                                               THEN "armed" ELSE "unset",
                                 !.timeoutMs = IF TimeoutConfigured
                                               THEN (cfg.timeout.v + TimeoutSlackSeconds)
                                                    * MsPerSecond
                                               ELSE 0]]
  /\ flags' = [flags EXCEPT ![attempt] =
                 buildCrawlArgs(cfg, attemptOverrides(cfg, attempt))]
  /\ oplog' = Append(oplog, Op("spawn", "firecrawl", attempt))
  /\ pc' = "await"
  /\ UNCHANGED <<argsOk, apiKey, cfg, groupLeader, proc, pipe, files, exitCode, mainVars>>

JobIdOf(i) == IF i = 1 THEN "job-a1" ELSE "job-b2"

\* handleChunk on the chunk that completes the 'Job ID: <id>' line, lines
\* 208-216 (with a job id already captured the handler changes nothing).
handleChunk(i) ==
  /\ Running
  /\ run[i].started
  /\ run[i].jobId = Null
  /\ run' = [run EXCEPT ![i].jobId = JobIdOf(i)]
  /\ UNCHANGED <<pc, argsOk, apiKey, cfg, groupLeader, proc, pipe, flags, files, oplog, exitCode, mainVars>>

clearTimeoutNoop(t) == t

clearTimeout(t) == IF t = "armed" THEN "cleared" ELSE t

\* The (T+5)s timer, lines 224-227 and 229 (arming the 5s timer).
TimeoutFires(i) ==
  /\ Running
  /\ run[i].timeoutId = "armed"
  /\ run' = [run EXCEPT ![i].timeoutId = "fired",
                        ![i].timedOut = TRUE,
                        ![i].signals = Append(run[i].signals, "SIGTERM"),
                        ![i].killTimeoutId = "armed",
                        ![i].killMs = KillDelayMs]
  /\ UNCHANGED <<pc, argsOk, apiKey, cfg, groupLeader, proc, pipe, flags, files, oplog, exitCode, mainVars>>

\* The 5s timer, lines 229-233: SIGKILL, and arm the 2s timer.
KillTimeoutFires(i) ==
  /\ Running
  /\ run[i].killTimeoutId = "armed"
  /\ run' = [run EXCEPT ![i].killTimeoutId = "fired",
                        ![i].signals = Append(run[i].signals, "SIGKILL"),
                        ![i].forceTimer = "armed",
                        ![i].forceMs = ForceDelayMs]
  /\ UNCHANGED <<pc, argsOk, apiKey, cfg, groupLeader, proc, pipe, flags, files, oplog, exitCode, mainVars>>

ForcedResult(r) ==
  [exitCode |-> ForcedExitCode, signal |-> "SIGKILL", timedOut |-> TRUE,
   jobId |-> r.jobId, forced |-> TRUE, error |-> FALSE]

\* The body of the 2s timer, lines 234-245.
forceResolveNever(r) == [r EXCEPT !.forceTimer = "fired"]

forceResolve(r) ==
  IF r.resolved
  THEN [r EXCEPT !.forceTimer = "fired"]
  ELSE [r EXCEPT !.forceTimer = "fired",
                 !.resolved = TRUE,
                 !.timeoutId = clearTimeout(r.timeoutId),
                 !.killTimeoutId = clearTimeout(r.killTimeoutId),
                 !.result = ForcedResult(r)]

ForceTimerFires(i) ==
  /\ Running
  /\ run[i].forceTimer = "armed"
  /\ run' = [run EXCEPT ![i] = forceResolve(run[i])]
  /\ UNCHANGED <<pc, argsOk, apiKey, cfg, groupLeader, proc, pipe, flags, files, oplog, exitCode, mainVars>>

\* child.on('error'), lines 251-257.
onError(r) ==
  IF r.resolved THEN r
  ELSE [r EXCEPT !.resolved = TRUE,
                 !.timeoutId = clearTimeout(r.timeoutId),
                 !.killTimeoutId = clearTimeout(r.killTimeoutId),
                 !.result = [exitCode |-> ErrorEventExit, signal |-> Null,
                             timedOut |-> r.timedOut, jobId |-> r.jobId,
                             forced |-> FALSE, error |-> TRUE]]

ChildError(i) ==
  /\ Running
  /\ run[i].errorPending
  /\ run' = [run EXCEPT ![i] =
               onError([run[i] EXCEPT !.errorPending = FALSE])]
  /\ UNCHANGED <<pc, argsOk, apiKey, cfg, groupLeader, proc, pipe, flags, files, oplog, exitCode, mainVars>>

\* How a child can end: with an exit code, or killed by a signal it was sent.
ChildCodes == {0, 1, 2}
CodeExit(c) == [kind |-> "code", code |-> c, signal |-> Null]
SignalExit(sig) == [kind |-> "signal", code |-> 0 - 1, signal |-> sig]
ExitEvents(r) ==
  {CodeExit(c) : c \in ChildCodes}
  \cup {SignalExit(r.signals[k]) : k \in DOMAIN r.signals}

\* child.on('exit'), lines 259-265: code ?? 1, signal ?? null.
onExitUnguarded(r, ev) ==
  [r EXCEPT !.resolved = TRUE,
            !.timeoutId = clearTimeout(r.timeoutId),
            !.killTimeoutId = clearTimeout(r.killTimeoutId),
            !.result = [exitCode |-> IF ev.kind = "code" THEN ev.code
                                     ELSE NullCodeExit,
                        signal |-> ev.signal,
                        timedOut |-> r.timedOut, jobId |-> r.jobId,
                        forced |-> FALSE, error |-> FALSE]]

onExit(r, ev) ==
  IF r.resolved THEN r
  ELSE [r EXCEPT !.resolved = TRUE,
                 !.timeoutId = clearTimeout(r.timeoutId),
                 !.killTimeoutId = clearTimeout(r.killTimeoutId),
                 !.result = [exitCode |-> IF ev.kind = "code" THEN ev.code
                                          ELSE NullCodeExit,
                             signal |-> ev.signal,
                             timedOut |-> r.timedOut, jobId |-> r.jobId,
                             forced |-> FALSE, error |-> FALSE]]

\* The events the handlers of attempt i have been given so far.
ExitReported(r) == r.started /\ ~r.alive
ErrorReported(r) == r.spawned /\ ~r.started /\ ~r.errorPending

\* What the ending child leaves at crawl.json (-o): the tool writes its
\* result when the crawl is done and then exits 0; a tool that fails leaves
\* the file alone or half written; a killed one leaves it alone.
ExitWrites(ev, current) ==
  IF ev.kind = "signal" THEN {current}
  ELSE IF ev.code = 0 THEN CrawlOutputs \cup {current}
  ELSE {current, Garbage}

\* The child ends: the process is gone, crawl.json is as the child left it,
\* and the 'exit' handler runs.
ChildExit(i) ==
  /\ Running
  /\ run[i].alive
  /\ \E ev \in ExitEvents(run[i]) :
       /\ run' = [run EXCEPT ![i] = onExit([run[i] EXCEPT !.alive = FALSE], ev)]
       /\ \E out \in ExitWrites(ev, files.crawl) :
            files' = [files EXCEPT !.crawl = out]
  /\ UNCHANGED <<pc, argsOk, apiKey, cfg, groupLeader, proc, pipe, flags, oplog, exitCode, mainVars>>

\* -------------------------------------------------------- main: the loop

Last(q) == q[Len(q)]
SetLast(q, f, v) == [q EXCEPT ![Len(q)] = [q[Len(q)] EXCEPT ![f] = v]]

MissingJobPayload == [kind |-> "error", error |-> "missing job id"]
ResponsePayload(id, resp) == [kind |-> "response", jobId |-> id, response |-> resp]

\* attemptMeta.status before line 408 assigns it.
Unset == "undefined"

\* result.exitCode === 0, line 393.
exitedZeroAlways(result) == TRUE

exitedZero(result) == result.exitCode = 0

\* main, lines 376-405: the continuation of `await runCrawlAttempt`.  An
\* exit code 0 ends the loop; otherwise dumpStatusAndErrors starts, and
\* without a job id it writes the missing-job-id payloads at once.
AttemptSettled ==
  /\ pc = "await"
  /\ run[attempt].resolved
  /\ LET result == run[attempt].result
         attemptMeta ==
           [index |-> attempt, exitCode |-> result.exitCode,
            signal |-> result.signal, timedOut |-> result.timedOut,
            jobId |-> result.jobId, overrides |-> (attempt = 2),
            status |-> Unset, cancelled |-> FALSE]
     IN /\ attempts' = Append(attempts, attemptMeta)
        /\ jobIds' = IF result.jobId # Null THEN Append(jobIds, result.jobId)
                     ELSE jobIds
        /\ IF exitedZero(result)
           THEN /\ success' = TRUE
                /\ lastExitCode' = 0
                /\ pc' = "finalize"
                /\ UNCHANGED <<files, oplog, statusResponse>>
           ELSE /\ lastExitCode' = result.exitCode
                /\ UNCHANGED success
                /\ IF result.jobId = Null
                   THEN /\ files' = [files EXCEPT !.status = MissingJobPayload,
                                                  !.errors = MissingJobPayload]
                        /\ oplog' = oplog \o <<Op("write", "status.json", attempt),
                                               Op("write", "errors.json", attempt)>>
                        /\ statusResponse' = NoResponse
                        /\ pc' = "classify"
                   ELSE /\ pc' = "fetch"
                        /\ UNCHANGED <<files, oplog, statusResponse>>
  /\ UNCHANGED <<argsOk, apiKey, cfg, groupLeader, proc, pipe, run, flags, exitCode, attempt,
                 fallbackNeeded, fallbackReason, stalled>>

\* The requests fetchJson issues for the two GETs: none without a key.
FetchOps(n) ==
  IF apiKey THEN <<Op("GET", "status", n), Op("GET", "errors", n)>> ELSE << >>

\* dumpStatusAndErrors, lines 304-313: both fetchJson calls return (a reply
\* of the endpoint, or the no-credential result) and both files are written.
FetchReturns ==
  /\ pc = "fetch"
  /\ \E sr \in StatusReplies :
       LET statusResp == fetchJson(apiKey, sr)
           errorsResp == fetchJson(apiKey, ErrorsReply(sr))
           id == Last(attempts).jobId
       IN /\ statusResponse' = statusResp
          /\ files' = [files EXCEPT !.status = ResponsePayload(id, statusResp),
                                    !.errors = ResponsePayload(id, errorsResp)]
  /\ oplog' = oplog \o FetchOps(attempt)
                \o <<Op("write", "status.json", attempt),
                     Op("write", "errors.json", attempt)>>
  /\ pc' = "classify"
  /\ UNCHANGED <<argsOk, apiKey, cfg, groupLeader, proc, pipe, run, flags, exitCode, attempt, attempts,
                 jobIds, success, fallbackNeeded, fallbackReason, lastExitCode,
                 stalled>>

\* main().catch, lines 507-510: an exception leaves main; exit 1.
Fatal == Exit(FatalExitCode)

\* fetch() rejects (network error) in the status or in the errors request:
\* the exception propagates out of dumpStatusAndErrors and main.
FetchThrows ==
  /\ pc = "fetch"
  /\ apiKey
  /\ \E n \in 1..2 : oplog' = oplog \o SubSeq(FetchOps(attempt), 1, n)
  /\ Fatal
  /\ UNCHANGED <<argsOk, apiKey, cfg, groupLeader, pipe, flags, files, mainVars>>

\* The end of the loop body, lines 420-425.
LoopTail(isStalled) ==
  IF attempt = 1 /\ isStalled
  THEN /\ attempt' = 2
       /\ pc' = "spawn"
       /\ UNCHANGED fallbackNeeded
  ELSE /\ fallbackNeeded' = TRUE
       /\ pc' = "finalize"
       /\ UNCHANGED attempt

\* stalled, line 413.
classifyStalledIgnoresTimeout(timedOut, statusValue) ==
  isStalledStatus(statusValue)

classifyStalled(timedOut, statusValue) ==
  timedOut \/ isStalledStatus(statusValue)

\* main, lines 407-418: classification, and the cancel call when stalled
\* with a job id (the DELETE is issued only with a key).
Classify ==
  /\ pc = "classify"
  /\ LET statusValue == getStatusValue(statusResponse)
         isStalled == classifyStalled(Last(attempts).timedOut, statusValue)
     IN /\ attempts' = SetLast(attempts, "status", statusValue)
        /\ stalled' = isStalled
        /\ fallbackReason' = IF isStalled THEN "stalled" ELSE "failed"
        /\ IF isStalled /\ Last(attempts).jobId # Null
           THEN /\ pc' = "cancel"
                /\ oplog' = oplog \o <<Op("call", "cancelCrawl", attempt)>>
                                  \o (IF apiKey
                                      THEN <<Op("DELETE", "crawl", attempt)>>
                                      ELSE << >>)
                /\ UNCHANGED <<attempt, fallbackNeeded>>
           ELSE /\ LoopTail(isStalled)
                /\ UNCHANGED oplog
  /\ UNCHANGED <<argsOk, apiKey, cfg, groupLeader, proc, pipe, run, flags, files, exitCode, jobIds,
                 success, lastExitCode, statusResponse>>

\* cancelCrawl returns (whatever the reply): lines 417-425.
CancelReturns ==
  /\ pc = "cancel"
  /\ \E reply \in CancelReplies :
       LET response == fetchJson(apiKey, reply)
       IN attempts' = SetLast(attempts, "cancelled", TRUE)
  /\ LoopTail(stalled)
  /\ UNCHANGED <<argsOk, apiKey, cfg, groupLeader, proc, pipe, run, flags, files, oplog, exitCode, jobIds,
                 success, fallbackReason, lastExitCode, statusResponse, stalled>>

\* fetch() rejects in the DELETE: the exception leaves cancelCrawl and main.
CancelThrows ==
  /\ pc = "cancel"
  /\ apiKey
  /\ Fatal
  /\ UNCHANGED <<argsOk, apiKey, cfg, groupLeader, pipe, flags, files, oplog, mainVars>>

\* ---------------------------------------------------- main: the final part

Exists(f) == f # Missing

\* meta.result, line 451.
baseResultNeverFallback(s, fb) == IF s THEN "success" ELSE "failed"

baseResult(s, fb) == IF s THEN "success" ELSE IF fb THEN "fallback" ELSE "failed"

\* meta.fallback, line 452.
fallbackFieldAlways(fbNeeded) == "scrape"

fallbackField(fbNeeded) == IF fbNeeded THEN "scrape" ELSE Null

\* The meta object of lines 433-461 (the fields the outcome depends on).
BuildMeta ==
  LET fbNeeded == IF ~success THEN TRUE ELSE fallbackNeeded
      fbReason == IF ~success /\ fallbackReason = Null THEN "failed"
                  ELSE fallbackReason
  IN [kind |-> "meta",
      result |-> baseResult(success, fbNeeded),
      fallback |-> fallbackField(fbNeeded),
      fallbackReason |-> fbReason,
      attempts |-> attempts,
      jobIds |-> jobIds,
      artifacts |-> [map |-> TRUE,
                     crawl |-> Exists(files.crawl), status |-> Exists(files.status),
                     errors |-> Exists(files.errors),
                     violations |-> Exists(files.violations)],
      violations |-> << >>]

\* The scan of a parsed crawl.json, lines 485-501: the URL check, and the
\* content check only when the URL check found nothing.
scanViolations(doc) ==
  LET urlViolations == urlViolationReasons(collectUrls(doc.pages))
  IN IF Len(urlViolations) > 0 THEN urlViolations
     ELSE findListingContentViolations(collectPageEntries(doc))

WriteMeta(m) ==
  /\ files' = [files EXCEPT !.meta = m]
  /\ oplog' = Append(oplog, Op("write", "meta.json", attempt))

\* main, lines 428-504, from the end of the loop to process.exit.
Finalize ==
  /\ pc = "finalize"
  /\ LET meta == BuildMeta
     IN IF ~success
        THEN /\ WriteMeta(meta)
             /\ Exit(lastExitCode)
        ELSE IF ~Exists(files.crawl) \/ files.crawl = Garbage
        THEN /\ WriteMeta([meta EXCEPT !.result = "failed"])
             /\ Exit(FailedExitCode)
        ELSE LET reasons == scanViolations(files.crawl)
             IN IF Len(reasons) > 0
                THEN /\ files' = [files EXCEPT
                                    !.meta = [meta EXCEPT !.result = "violations",
                                                          !.violations = reasons],
                                    !.violations = [kind |-> "violations",
                                                    reasons |-> reasons]]
                     /\ oplog' = oplog \o <<Op("write", "meta.json", attempt),
                                            Op("write", "violations.json", attempt)>>
                     /\ Exit(ViolationExitCode)
                ELSE /\ WriteMeta(meta)
                     /\ Exit(0)
  /\ UNCHANGED <<argsOk, apiKey, cfg, groupLeader, pipe, flags, mainVars>>

\* ----------------------------------------------------------- specification

Next ==
  \/ ParseArgs
  \/ SpawnAttempt
  \/ \E i \in Attempts : handleChunk(i)
  \/ \E i \in Attempts : TimeoutFires(i)
  \/ \E i \in Attempts : KillTimeoutFires(i)
  \/ \E i \in Attempts : ForceTimerFires(i)
  \/ \E i \in Attempts : ChildError(i)
  \/ \E i \in Attempts : ChildExit(i)
  \/ AttemptSettled
  \/ FetchReturns
  \/ FetchThrows
  \/ Classify
  \/ CancelReturns
  \/ CancelThrows
  \/ Finalize

Spec == Init /\ [][Next]_vars

\* Node's event loop runs every timer callback that is due: an armed timer
\* fires unless it is cleared first.  Nothing is assumed of the child.
TimerFairness ==
  \A i \in Attempts :
    /\ WF_vars(TimeoutFires(i))
    /\ WF_vars(KillTimeoutFires(i))
    /\ WF_vars(ForceTimerFires(i))

FairSpec == Spec /\ TimerFairness

\* One runCrawlAttempt on its own: the attempt is spawned and its timers and
\* child events run; main stays at its await.
InitAttempt ==
  /\ pc = "spawn"
  /\ argsOk = TRUE
  /\ apiKey \in BOOLEAN
  /\ groupLeader \in BOOLEAN
  /\ cfg \in GuardConfigs
  /\ files \in [crawl : StaleCrawlFiles, status : {Missing}, errors : {Missing},
                violations : {Missing}, meta : {Missing}]
  /\ InitCommon

NextAttempt ==
  \/ SpawnAttempt
  \/ \E i \in Attempts : handleChunk(i)
  \/ \E i \in Attempts : TimeoutFires(i)
  \/ \E i \in Attempts : KillTimeoutFires(i)
  \/ \E i \in Attempts : ForceTimerFires(i)
  \/ \E i \in Attempts : ChildError(i)
  \/ \E i \in Attempts : ChildExit(i)

FairAttemptSpec == InitAttempt /\ [][NextAttempt]_vars /\ TimerFairness

\* The orchestrator with the operator's signals: SIGINT or SIGTERM may reach
\* it at any moment of the run (a run in a fresh directory).
OperatorSignals == {"SIGINT", "SIGTERM"}

InitSignal ==
  /\ pc = "start"
  /\ argsOk \in BOOLEAN
  /\ apiKey \in BOOLEAN
  /\ groupLeader \in BOOLEAN
  /\ cfg \in RunConfigs
  /\ files = [crawl |-> Missing, status |-> Missing, errors |-> Missing,
              violations |-> Missing, meta |-> Missing]
  /\ InitCommon

NextSignal ==
  \/ Next
  \/ \E sig \in OperatorSignals : OnSignal(sig)

SignalSpec == InitSignal /\ [][NextSignal]_vars

\* The flag building on its own, over every RunConfig: buildCrawlArgs with
\* the overrides of attempt 1 and of attempt 2.
InitArgs ==
  /\ pc = "args"
  /\ argsOk = TRUE
  /\ apiKey = FALSE
  /\ groupLeader = FALSE
  /\ cfg \in AllConfigs
  /\ files = [crawl |-> Missing, status |-> Missing, errors |-> Missing,
              violations |-> Missing, meta |-> Missing]
  /\ InitCommon

BuildArgs(a) ==
  /\ pc = "args"
  /\ flags[a] = NoArgs
  /\ flags' = [flags EXCEPT ![a] = buildCrawlArgs(cfg, attemptOverrides(cfg, a))]
  /\ UNCHANGED <<pc, argsOk, apiKey, cfg, groupLeader, proc, pipe, run, files, oplog, exitCode, mainVars>>

NextArgs == \E a \in Attempts : BuildArgs(a)

SpecArgs == InitArgs /\ [][NextArgs]_vars

\* ------------------------------------------------- the from-url pipeline

\* scripts/relaunch/from-url.mjs: status, map, crawl (or scrape only), the
\* whitelist-scrape fallback, the generator, validation, build.  Each step is
\* a subprocess run by runStep; an action is the end of a step together with
\* the stretch of main() up to the start of the next step or process.exit.

PipeModes == {"generate", "build", "dev", "scrape"}

\* The values of meta.result.
Results == {"success", "fallback", "failed", "violations"}

\* --url and --slug of the pipeline; NoTarget: one of them is not given.
NoTarget == [url |-> Null, slug |-> Null]
PipeTargets == {[url |-> "https://a.example", slug |-> "a"],
                [url |-> "https://b.example", slug |-> "b"]}

\* meta.json as readJsonSafe returns it: null (missing or not JSON), or the
\* object with its fallback and result fields.
Unreadable == [kind |-> "unreadable"]
PipeMeta(f, r) == [kind |-> "meta", fallback |-> f, result |-> r]
PipeMetas ==
  {Unreadable} \cup {PipeMeta(f, r) : f \in {Null, "scrape"}, r \in Results}

\* How the crawl step can end: 'close' with the orchestrator's exit code or
\* with null (killed by a signal), or 'error' (spawn failure).
PipeStepCodes == {0, 1, 2}
CrawlStepEnds ==
  {CodeExit(c) : c \in PipeStepCodes \cup {ForcedExitCode}}
  \cup {SignalExit("SIGKILL"), [kind |-> "error", code |-> 0 - 1, signal |-> Null]}

\* finish(code) of runStep, lines 55-57 and 66-67: code ?? 1, and 1 on 'error'.
PipeNullCode == 1
PipeErrorCode == 1
normalized(ev) ==
  IF ev.kind = "code" THEN ev.code
  ELSE IF ev.kind = "error" THEN PipeErrorCode
  ELSE PipeNullCode

PipeUsageExit == 1
PipeMapMissingExit == 1
PipeViolationExit == 2

PipeExit(p, code) == [p EXCEPT !.pc = "exited", !.exit = code]

\* runStep(label, ...) is called with the pipeline's url and slug (the
\* generator, validation and build get the slug only).
StartStep(p, label, u) ==
  [p EXCEPT !.pc = label,
            !.steps = Append(@, [label |-> label, url |-> u, slug |-> p.target.slug])]

\* finish() of a step without allowFailure, lines 59-62: a non-zero code ends
\* the pipeline with that code.
StepFailed(ev) == normalized(ev) # 0

\* The condition of lines 107-109 under which the fallback step is run.
needsScrapeFallbackAlways(crawlStatus, meta) == crawlStatus # 0

needsScrapeFallback(crawlStatus, meta) ==
  /\ crawlStatus # 0
  /\ meta # Unreadable
  /\ (meta.fallback = "scrape" \/ meta.result = "fallback")

\* main, lines 146-162: the map and violations checks, then the generator.
afterCrawlBranch(p) ==
  IF ~p.dir.map THEN PipeExit(p, PipeMapMissingExit)
  ELSE IF p.dir.violations THEN PipeExit(p, PipeViolationExit)
  ELSE StartStep(p, "generate", Null)

\* The pipeline before main() runs, with what earlier runs left in the
\* directory of the slug.
InitPipe ==
  /\ pc = "pipeline"
  /\ argsOk = TRUE
  /\ apiKey = FALSE
  /\ groupLeader = FALSE
  /\ cfg \in {c \in RunConfigs : c.timeout = Absent}
  /\ files = [crawl |-> Missing, status |-> Missing, errors |-> Missing,
              violations |-> Missing, meta |-> Missing]
  /\ attempt = 1
  /\ run = [i \in Attempts |-> IdleRun]
  /\ flags = [i \in Attempts |-> NoArgs]
  /\ attempts = << >>
  /\ jobIds = << >>
  /\ success = FALSE
  /\ fallbackNeeded = FALSE
  /\ fallbackReason = Null
  /\ lastExitCode = InitialLastExitCode
  /\ statusResponse = NoResponse
  /\ stalled = FALSE
  /\ oplog = << >>
  /\ exitCode = 0 - 1
  /\ proc = IdleProc
  /\ \E target \in PipeTargets \cup {NoTarget}, mode \in PipeModes,
        meta \in PipeMetas, violations \in BOOLEAN :
       pipe = [pc |-> "start", target |-> target, mode |-> mode,
               steps |-> << >>, crawlStatus |-> 0 - 1, metaAfterCrawl |-> Unreadable,
               dir |-> [map |-> FALSE, violations |-> violations, crawl |-> FALSE,
                        meta |-> meta],
               found |-> {}, exit |-> 0 - 1]

PipeUnchanged ==
  UNCHANGED <<pc, argsOk, apiKey, cfg, groupLeader, proc, run, flags, files,
              oplog, exitCode, mainVars>>

\* main, lines 80-94: the usage check, then the status step is started.
PipeStart ==
  /\ pipe.pc = "start"
  /\ pipe' = IF pipe.target = NoTarget THEN PipeExit(pipe, PipeUsageExit)
             ELSE StartStep(pipe, "status", Null)
  /\ PipeUnchanged

\* The status step ends; lines 94-97: the map step is started.
PipeStatusEnds ==
  /\ pipe.pc = "status"
  /\ \E c \in PipeStepCodes :
       pipe' = IF StepFailed(CodeExit(c)) THEN PipeExit(pipe, c)
               ELSE StartStep(pipe, "map", pipe.target.url)
  /\ PipeUnchanged

\* The map step ends (map.mjs exits 0 after writing map.json; a failing one
\* may leave none); lines 99-101 and 129-132: the crawl step, or in scrape
\* mode the whitelist scrape, is started.
PipeMapEnds ==
  /\ pipe.pc = "map"
  /\ \E c \in PipeStepCodes, written \in BOOLEAN :
       LET p == [pipe EXCEPT !.dir.map = written]
       IN pipe' = IF StepFailed(CodeExit(c)) THEN PipeExit(p, c)
                  ELSE IF pipe.mode # "scrape"
                  THEN StartStep(p, "crawl", pipe.target.url)
                  ELSE StartStep(p, "scrape-only", pipe.target.url)
  /\ PipeUnchanged

\* The crawl step ends (allowFailure), leaving meta.json, violations.json
\* and crawl.json as the orchestrator and its subprocess left them: the
\* orchestrator writes violations.json when its scan finds a violation and
\* never removes one; lines 101-128 and, after an exit code 0, 146-162.
PipeCrawlEnds ==
  /\ pipe.pc = "crawl"
  /\ \E ev \in CrawlStepEnds, meta \in PipeMetas,
        found \in BOOLEAN, crawl \in BOOLEAN :
       LET crawlStatus == normalized(ev)
           p == [pipe EXCEPT !.crawlStatus = crawlStatus,
                             !.metaAfterCrawl = meta,
                             !.dir.meta = meta,
                             !.dir.violations = (@ \/ found),
                             !.found = IF found THEN @ \cup {"crawl"} ELSE @,
                             !.dir.crawl = crawl]
       IN pipe' = IF crawlStatus = PipeViolationExit
                  THEN PipeExit(p, PipeViolationExit)
                  ELSE IF crawlStatus # 0
                  THEN (IF needsScrapeFallback(crawlStatus, meta)
                        THEN StartStep(p, "scrape-fallback", pipe.target.url)
                        ELSE PipeExit(p, crawlStatus))
                  ELSE afterCrawlBranch(p)
  /\ PipeUnchanged

\* The fallback step ends; lines 113-124 (meta.json is marked as a scrape
\* fallback) and 146-162.
PipeScrapeFallbackEnds ==
  /\ pipe.pc = "scrape-fallback"
  /\ \E c \in PipeStepCodes :
       pipe' = IF StepFailed(CodeExit(c)) THEN PipeExit(pipe, c)
               ELSE afterCrawlBranch(
                      [pipe EXCEPT !.dir.meta = PipeMeta("scrape", "fallback")])
  /\ PipeUnchanged

\* The whitelist scrape of scrape mode ends; lines 133-143 (meta.json gets
\* result = success, its fallback field is kept) and 146-162.
PipeScrapeOnlyEnds ==
  /\ pipe.pc = "scrape-only"
  /\ \E c \in PipeStepCodes :
       pipe' = IF StepFailed(CodeExit(c)) THEN PipeExit(pipe, c)
               ELSE afterCrawlBranch(
                      [pipe EXCEPT !.dir.meta =
                         PipeMeta(IF @ = Unreadable THEN Null ELSE @.fallback,
                                  "success")])
  /\ PipeUnchanged

\* The generator ends (it exits 2 after writing violations.json when it
\* finds a listing); line 163: validation is started.
PipeGenerateEnds ==
  /\ pipe.pc = "generate"
  /\ \E c \in PipeStepCodes :
       LET p == [pipe EXCEPT !.dir.violations = (@ \/ c = PipeViolationExit),
                             !.found = IF c = PipeViolationExit
                                       THEN @ \cup {"generate"} ELSE @]
       IN pipe' = IF StepFailed(CodeExit(c)) THEN PipeExit(p, c)
                  ELSE StartStep(p, "validate", Null)
  /\ PipeUnchanged

\* Validation ends; lines 167-189: main returns in the dev, generate and
\* scrape modes, and starts the build otherwise.
PipeValidateEnds ==
  /\ pipe.pc = "validate"
  /\ \E c \in PipeStepCodes :
       pipe' = IF StepFailed(CodeExit(c)) THEN PipeExit(pipe, c)
               ELSE IF pipe.mode \in {"dev", "generate", "scrape"}
               THEN PipeExit(pipe, 0)
               ELSE StartStep(pipe, "build", Null)
  /\ PipeUnchanged

\* The build ends and main returns.
PipeBuildEnds ==
  /\ pipe.pc = "build"
  /\ \E c \in PipeStepCodes :
       pipe' = IF StepFailed(CodeExit(c)) THEN PipeExit(pipe, c)
               ELSE PipeExit(pipe, 0)
  /\ PipeUnchanged

NextPipe ==
  \/ PipeStart
  \/ PipeStatusEnds
  \/ PipeMapEnds
  \/ PipeCrawlEnds
  \/ PipeScrapeFallbackEnds
  \/ PipeScrapeOnlyEnds
  \/ PipeGenerateEnds
  \/ PipeValidateEnds
  \/ PipeBuildEnds

PipeSpec == InitPipe /\ [][NextPipe]_vars

\* ------------------------------------------------ the job id in the output

\* The child's output is a sequence of characters per stream; "Job ID:" is
\* one element (a chunk boundary inside it delays the match like a boundary
\* before it does).  run[i].stdout and run[i].stderr are what the child has
\* printed and the orchestrator has not read yet; run[i].buffer is the
\* closure's buffer.
JobIdMarker == "Job ID:"
PrintedId == <<"a", "b">>
ToolStdout == <<JobIdMarker, " ">> \o PrintedId \o <<"\n">>
ToolStderr == <<"e", "r", "\n">>

\* \s and [a-f0-9-] of the pattern of line 192, on the model's characters.
IsSpace(c) == c \in {" ", "\n"}
IsIdChar(c) == c \in {"a", "b", "e"}

RECURSIVE Join(_)
\* The string made of a sequence of characters.
Join(chars) == IF chars = << >> THEN "" ELSE Head(chars) \o Join(Tail(chars))

RECURSIVE SkipSpace(_, _)
\* \s* from position p: the first position that is no white space.
SkipSpace(text, p) ==
  IF p <= Len(text) /\ IsSpace(text[p]) THEN SkipSpace(text, p + 1) ELSE p

RECURSIVE IdEnd(_, _)
\* [a-f0-9-]+ from position p (greedy): the position after the last id
\* character.
IdEnd(text, p) ==
  IF p <= Len(text) /\ IsIdChar(text[p]) THEN IdEnd(text, p + 1) ELSE p

\* extractJobId, lines 190-194: the first match of the pattern, group 1.
extractJobId(text) ==
  LET matches == {m \in DOMAIN text :
                    /\ text[m] = JobIdMarker
                    /\ IdEnd(text, SkipSpace(text, m + 1)) > SkipSpace(text, m + 1)}
  IN IF matches = {} THEN Null
     ELSE LET m == CHOOSE k \in matches : \A j \in matches : k <= j
              p == SkipSpace(text, m + 1)
          IN Join(SubSeq(text, p, IdEnd(text, p) - 1))

\* The length the buffer is cut to (4000 characters in the source, line
\* 211), scaled to the model's output.
BufferWindow == 6

\* text.slice(-n)
sliceLast(text, n) ==
  IF Len(text) <= n THEN text ELSE SubSeq(text, Len(text) - n + 1, Len(text))

\* handleChunk, lines 208-216, on a chunk of n characters of one stream.
handleChunkText(r, chunk) ==
  LET buffer == sliceLast(r.buffer \o chunk, BufferWindow)
      extracted == IF r.jobId = Null THEN extractJobId(buffer) ELSE Null
  IN [r EXCEPT !.buffer = buffer,
               !.jobId = IF r.jobId = Null /\ extracted # Null
                         THEN extracted ELSE r.jobId]

\* A 'data' event of the child's stdout or stderr: the pipe hands over the
\* next n unread characters of that stream, for any n.
ChunkArrives(i) ==
  /\ Running
  /\ run[i].started
  /\ \/ \E n \in 1..Len(run[i].stdout) :
          run' = [run EXCEPT ![i] =
                    [handleChunkText(run[i], SubSeq(run[i].stdout, 1, n))
                       EXCEPT !.stdout = SubSeq(run[i].stdout, n + 1,
                                                Len(run[i].stdout))]]
     \/ \E n \in 1..Len(run[i].stderr) :
          run' = [run EXCEPT ![i] =
                    [handleChunkText(run[i], SubSeq(run[i].stderr, 1, n))
                       EXCEPT !.stderr = SubSeq(run[i].stderr, n + 1,
                                                Len(run[i].stderr))]]
  /\ UNCHANGED <<pc, argsOk, apiKey, cfg, groupLeader, proc, pipe, flags, files,
                 oplog, exitCode, mainVars>>

\* One attempt whose child has printed its job id line on stdout and a
\* message on stderr: the chunks arrive in any split and interleaving, and
\* the child exits.
InitChunk ==
  /\ pc = "await"
  /\ argsOk = TRUE
  /\ apiKey = FALSE
  /\ groupLeader = FALSE
  /\ cfg \in {c \in RunConfigs : c.timeout = Absent}
  /\ attempt = 1
  /\ run = [i \in Attempts |->
             IF i = 1
             THEN [IdleRun EXCEPT !.spawned = TRUE, !.started = TRUE,
                                  !.alive = TRUE, !.stdout = ToolStdout,
                                  !.stderr = ToolStderr]
             ELSE IdleRun]
  /\ flags = [i \in Attempts |->
               IF i = 1 THEN buildCrawlArgs(cfg, attemptOverrides(cfg, 1))
               ELSE NoArgs]
  /\ attempts = << >>
  /\ jobIds = << >>
  /\ success = FALSE
  /\ fallbackNeeded = FALSE
  /\ fallbackReason = Null
  /\ lastExitCode = InitialLastExitCode
  /\ statusResponse = NoResponse
  /\ stalled = FALSE
  /\ files = [crawl |-> Missing, status |-> Missing, errors |-> Missing,
              violations |-> Missing, meta |-> Missing]
  /\ oplog = <<Op("spawn", "firecrawl", 1)>>
  /\ exitCode = 0 - 1
  /\ proc = IdleProc
  /\ pipe = IdlePipe

NextChunk ==
  \/ ChunkArrives(1)
  \/ ChildExit(1)

ChunkSpec == InitChunk /\ [][NextChunk]_vars

\* ------------------------------------------------------- the policy scan

\* The string fields of a page record (content, markdown, html, text, raw,
\* metadata.description), in that order, as the scanner joins them with a
\* newline, line 119-122.  What each field matches is read off the three
\* patterns of lines 113-115 (all case-insensitive):
\*   strongKeyword  objektnr | kaufpreis | ...      contentKeyword  preis | miete | ...
\*   pricePattern   (EUR sign | eur) \s? digit : the currency comes first.
FieldStrings ==
  {"Impressum", "Objektnr 12", "Kaufpreis: 100.000 EUR", "Miete", "EUR 850", "850 EUR"}

strongKeyword(s) == s \in {"Objektnr 12", "Kaufpreis: 100.000 EUR"}
contentKeyword(s) == s \in {"Kaufpreis: 100.000 EUR", "Miete"}
\* A field whose own text has a currency followed by a digit.
pricePatternInside(s) == s = "EUR 850"
\* The newline of the join is matched by \s?, so a field that ends with a
\* currency followed by a field that starts with a digit matches as well.
EndsWithCurrency(s) == s \in {"Kaufpreis: 100.000 EUR", "850 EUR"}
StartsWithDigit(s) == s = "850 EUR"

pricePattern(fields) ==
  \/ \E i \in DOMAIN fields : pricePatternInside(fields[i])
  \/ \E i \in DOMAIN fields :
       /\ i + 1 \in DOMAIN fields
       /\ EndsWithCurrency(fields[i])
       /\ StartsWithDigit(fields[i + 1])

\* The three tests of lines 125-126 on the joined text of the fields.
pageText(fields) ==
  Text(\E i \in DOMAIN fields : strongKeyword(fields[i]),
       \E i \in DOMAIN fields : contentKeyword(fields[i]),
       pricePattern(fields))

\* The field lists of the pages in the model: no text, plain text, each
\* pattern alone, amounts before and after the currency, and combinations.
PageFields ==
  {<< >>, <<"Impressum">>, <<"Objektnr 12">>, <<"Kaufpreis: 100.000 EUR">>,
   <<"Miete">>, <<"EUR 850">>, <<"850 EUR">>, <<"Miete", "EUR 850">>,
   <<"Miete", "850 EUR">>, <<"Miete", "850 EUR", "850 EUR">>,
   <<"850 EUR", "850 EUR">>, <<"Kaufpreis: 100.000 EUR", "EUR 850">>,
   <<"Kaufpreis: 100.000 EUR", "Objektnr 12">>, <<"Objektnr 12", "EUR 850">>}

\* A page's url: clean, with a forbidden segment (in either case), or none.
ScanUrls == {CleanUrl, ListingUrl, UpperListingUrl, Absent}
ScanPages == {Page(u, pageText(f)) : u \in ScanUrls, f \in PageFields}

\* The number of page records of a crawl.json in the scan model.
MaxPages == 2

ScanDocs ==
  {Doc(pages) : pages \in UNION {[1..n -> ScanPages] : n \in 0..MaxPages}}

\* The scan on its own: attempt 1 has just exited 0 (no timeout configured)
\* and left a parsed crawl.json; main takes the result and scans it.
InitScan ==
  /\ pc = "await"
  /\ argsOk = TRUE
  /\ apiKey \in BOOLEAN
  /\ groupLeader = FALSE
  /\ cfg \in {c \in RunConfigs : c.timeout = Absent}
  /\ attempt = 1
  /\ run = [i \in Attempts |->
             IF i = 1
             THEN onExit([IdleRun EXCEPT !.spawned = TRUE, !.started = TRUE],
                         CodeExit(0))
             ELSE IdleRun]
  /\ flags = [i \in Attempts |->
               IF i = 1 THEN buildCrawlArgs(cfg, attemptOverrides(cfg, 1))
               ELSE NoArgs]
  /\ attempts = << >>
  /\ jobIds = << >>
  /\ success = FALSE
  /\ fallbackNeeded = FALSE
  /\ fallbackReason = Null
  /\ lastExitCode = InitialLastExitCode
  /\ statusResponse = NoResponse
  /\ stalled = FALSE
  /\ files \in [crawl : ScanDocs, status : {Missing}, errors : {Missing},
                violations : {Missing}, meta : {Missing}]
  /\ oplog = <<Op("spawn", "firecrawl", 1)>>
  /\ exitCode = 0 - 1
  /\ proc = IdleProc
  /\ pipe = IdlePipe

NextScan ==
  \/ AttemptSettled
  \/ Finalize

ScanSpec == InitScan /\ [][NextScan]_vars

\* ------------------------------------------------------------ observations

Exited == pc = "exited"

RECURSIVE CountOps(_, _, _)
\* How many entries of the log are the operation (kind, what).
CountOps(log, kind, what) ==
  IF log = << >> THEN 0
  ELSE (IF Head(log).op = kind /\ Head(log).what = what THEN 1 ELSE 0)
       + CountOps(Tail(log), kind, what)

Launches == CountOps(oplog, "spawn", "firecrawl")
MetaWrites == CountOps(oplog, "write", "meta.json")
MetaWritten == MetaWrites > 0
RunMeta == files.meta

\* The place in the log of the first (kind, what) of attempt n; 0 when absent.
OpIndex(kind, what, n) ==
  LET at == {k \in DOMAIN oplog : oplog[k] = Op(kind, what, n)}
  IN IF at = {} THEN 0 ELSE CHOOSE k \in at : \A j \in at : k <= j

\* A parsed crawl output in which some page has a forbidden URL.
HasForbiddenUrl(f) ==
  /\ f.kind = "json"
  /\ \E k \in DOMAIN f.pages :
       IsString(f.pages[k].url) /\ MatchesForbidden(f.pages[k].url)

\* A parsed crawl output in which some page breaks the listing policy.
HasListing(f) ==
  /\ f.kind = "json"
  /\ \E k \in DOMAIN f.pages :
       \/ IsString(f.pages[k].url) /\ MatchesForbidden(f.pages[k].url)
       \/ f.pages[k].text.strong
       \/ f.pages[k].text.content /\ f.pages[k].text.price

\* Attempt k was classified (line 408 ran) and the classification was stalled.
Classified(k) == Len(attempts) >= k /\ attempts[k].status # Unset
ClassifiedStalled(k) ==
  /\ Classified(k)
  /\ attempts[k].timedOut \/ isStalledStatus(attempts[k].status)

\* ------------------------------------------------------------------ claims

\* C1: in runCrawlAttempt with a timeout T > 0 the attempt always resolves,
\* whatever the child does; and when the 2s timer has fired with no exit and
\* no error reported, the attempt is resolved with exitCode 137, signal
\* SIGKILL, timedOut true and forced true.
C1_TimeoutGuardResolves ==
  \A i \in Attempts :
    /\ [](run[i].forceTimer = "fired" /\ ~ExitReported(run[i]) /\ ~ErrorReported(run[i])
            => /\ run[i].resolved
               /\ run[i].result.exitCode = ForcedExitCode
               /\ run[i].result.signal = "SIGKILL"
               /\ run[i].result.timedOut
               /\ run[i].result.forced)
    /\ (run[i].spawned /\ TimeoutConfigured) ~> run[i].resolved

\* C1 witness: an attempt whose child reported nothing was resolved by the
\* 2s timer.
C1_Witness ==
  /\ run[1].alive
  /\ run[1].resolved
  /\ run[1].result.forced
  /\ run[1].signals = <<"SIGTERM", "SIGKILL">>

\* C2: a run whose Result is fallback or failed exits with a non-zero code
\* other than 2, and a run that exits 2 recorded Result = violations.
C2_ExitTwoOnlyForViolations ==
  Exited /\ MetaWritten =>
    /\ RunMeta.result \in {"fallback", "failed"} => exitCode # 0 /\ exitCode # ViolationExitCode
    /\ exitCode = ViolationExitCode => RunMeta.result = "violations"

\* C3: at most one crawl subprocess is alive at any moment.
C3_AtMostOneChildAlive ==
  Cardinality({i \in Attempts : run[i].alive}) <= 1

\* C4: when the orchestrator has exited, meta.json was written exactly once.
C4_MetaWrittenOnceOnEveryPath ==
  Exited => MetaWrites = 1

\* C5: a run that made an attempt and ends with a crawl output holding a
\* forbidden URL records Result = violations and exits 2, whatever the
\* attempts' exit codes.
C5_ForbiddenUrlMeansViolations ==
  Exited /\ MetaWritten /\ HasForbiddenUrl(files.crawl) =>
    RunMeta.result = "violations" /\ exitCode = ViolationExitCode

\* C6: there are at most two launches; a second launch happens only after a
\* non-zero attempt 1 classified stalled; and a run whose attempt 1 ended
\* non-zero and was classified stalled has launched attempt 2 by its exit.
C6_RetryIffStalled ==
  /\ Launches <= 2
  /\ Launches = 2 => attempts[1].exitCode # 0 /\ ClassifiedStalled(1)
  /\ Exited /\ ClassifiedStalled(1) /\ attempts[1].exitCode # 0 => Launches = 2

\* C7: the Result in RunMeta is one of the four values, and it is fallback
\* when the last attempt exited non-zero, failed when it exited 0 and
\* crawl.json is missing or unparseable, violations when it exited 0 and the
\* parsed output breaks the policy, success otherwise.
C7_ResultDetermination ==
  MetaWritten =>
    LET last == Last(RunMeta.attempts)
        out == files.crawl
    IN /\ RunMeta.result \in Results
       /\ RunMeta.result =
            IF last.exitCode # 0 THEN "fallback"
            ELSE IF out.kind # "json" THEN "failed"
            ELSE IF HasListing(out) THEN "violations"
            ELSE "success"

\* C7 witness: an attempt exited 0 and left no parseable output.
C7_Witness ==
  /\ MetaWritten
  /\ Last(attempts).exitCode = 0
  /\ files.crawl = Garbage
  /\ RunMeta.result = "failed"

\* C8: the flags of attempt 2 carry limit = min(original, 8), maxDepth =
\* min(original, 2), maxConcurrency = 1, delayMs = max(original, 1000) (the
\* cap itself when the original is absent) and sitemap = skip unless
\* retrySitemap is configured; the flags of attempt 1 are the RunConfig's
\* values; and the RunConfig is never changed.
C8_FlagsOfAttempt(c, f1, f2) ==
  /\ f1 # NoArgs =>
       /\ f1.limit = (IF IsNumber(c.limit) THEN c.limit ELSE NoFlag)
       /\ f1.maxDepth = (IF IsNumber(c.maxDepth) THEN c.maxDepth ELSE NoFlag)
       /\ f1.delay = (IF IsNumber(c.delayMs) THEN c.delayMs ELSE NoFlag)
       /\ f1.maxConcurrency = (IF IsNumber(c.maxConcurrency) THEN c.maxConcurrency ELSE NoFlag)
       /\ f1.sitemap = (IF IsString(c.sitemap) THEN c.sitemap ELSE NoFlag)
  /\ f2 # NoArgs =>
       /\ f2.limit = Num(IF c.limit = Absent THEN RetryLimit ELSE Min(c.limit.v, RetryLimit))
       /\ f2.maxDepth = Num(IF c.maxDepth = Absent THEN RetryMaxDepth
                            ELSE Min(c.maxDepth.v, RetryMaxDepth))
       /\ f2.maxConcurrency = Num(RetryMaxConcurrency)
       /\ f2.delay = Num(IF c.delayMs = Absent THEN RetryDelayMs
                         ELSE Max(c.delayMs.v, RetryDelayMs))
       /\ c.retrySitemap = Absent => f2.sitemap = Str("skip")
       /\ f2.limit.v <= RetryLimit
       /\ f2.maxDepth.v <= RetryMaxDepth
       /\ f2.delay.v >= RetryDelayMs

C8_RetryOverrides ==
  /\ [](C8_FlagsOfAttempt(cfg, flags[1], flags[2]))
  /\ [][cfg' = cfg]_vars

\* C8 witness: both flag lists are built for a RunConfig whose limit, depth
\* and delay all have to be tightened.
C8_Witness ==
  /\ flags[1] # NoArgs
  /\ flags[2] # NoArgs
  /\ cfg.limit = Num(MaxLimit)
  /\ cfg.maxDepth = Num(MaxDepthValue)
  /\ cfg.delayMs = Num(DelayStep)
  /\ flags[2].limit = Num(RetryLimit)
  /\ flags[1].limit = Num(MaxLimit)

\* C9: a run in which attempt 1 timed out with remote status scraping and a
\* job id, attempt 2 ended non-zero, and RunMeta was written: the job of
\* attempt 1 was cancelled before attempt 2 was spawned, the Result is
\* fallback, fallbackReason is stalled and the exit code is not 0.
C9_StalledThenFailedIsStalledFallback ==
  Exited /\ MetaWritten /\ Len(attempts) = 2
    /\ attempts[1].timedOut /\ attempts[1].status = "scraping"
    /\ attempts[1].jobId # Null /\ attempts[2].exitCode # 0
  => /\ attempts[1].cancelled
     /\ OpIndex("DELETE", "crawl", 1) > 0
     /\ OpIndex("DELETE", "crawl", 1) < OpIndex("spawn", "firecrawl", 2)
     /\ RunMeta.result = "fallback"
     /\ RunMeta.fallbackReason = "stalled"
     /\ exitCode # 0

\* C10: a failing cancel call never aborts the flow: once the run is over,
\* a cancel call made after attempt 1 was followed by the launch of attempt
\* 2, and one made after attempt 2 by RunMeta with Result = fallback.
C10_CancelFailureDoesNotAbort ==
  Exited =>
    /\ OpIndex("call", "cancelCrawl", 1) > 0 => Launches = 2
    /\ OpIndex("call", "cancelCrawl", 2) > 0 =>
         MetaWritten /\ RunMeta.result = "fallback"

\* The orchestrator has ended after receiving SIGINT or SIGTERM.
EndedBySignal == proc.received # Null /\ proc.orch # "running"

\* C11: when the orchestrator has ended after a SIGINT or a SIGTERM, no crawl
\* subprocess is alive, whether or not the orchestrator leads its process
\* group.
C11_InterruptTerminatesChildren ==
  EndedBySignal => \A i \in Attempts : ~run[i].alive

\* C12: the write of meta.json is the last artifact write of the run: no
\* write of status.json, errors.json or violations.json follows it.
C12_MetaWriteIsLast ==
  \A k \in DOMAIN oplog :
    oplog[k].op = "write" /\ oplog[k].what = "meta.json" =>
      \A j \in DOMAIN oplog : j > k => oplog[j].op # "write"

\* status.json and errors.json hold a dump: the raw response of the request,
\* or the error payload.
IsDump(f) == f.kind \in {"response", "error"}

\* C13: when the run is over, for every attempt that ended non-zero both
\* status.json and errors.json were written after it, each with the raw
\* response or an error payload, whatever became of the two requests.
C13_StatusAndErrorsAlwaysDumped ==
  Exited =>
    \A k \in 1..Len(attempts) :
      attempts[k].exitCode # 0 =>
        /\ OpIndex("write", "status.json", k) > 0
        /\ OpIndex("write", "errors.json", k) > 0
        /\ IsDump(files.status)
        /\ IsDump(files.errors)

\* C14: without an API credential no HTTP request is issued, the status and
\* errors results that are dumped are the failure result (not ok, 401, an
\* error body), no exception ends the run, a stalled attempt 1 with a job id
\* is followed by attempt 2, and a run with a non-zero last attempt writes
\* RunMeta with Result = fallback.
C14_NoCredentialDegrades ==
  ~apiKey =>
    /\ \A k \in DOMAIN oplog : oplog[k].op \notin {"GET", "DELETE"}
    /\ \A f \in {files.status, files.errors} :
         f.kind = "response" =>
           /\ ~f.response.ok
           /\ f.response.http = 401
           /\ f.response.error # Null
    /\ Exited /\ argsOk => MetaWritten
    /\ Exited /\ OpIndex("call", "cancelCrawl", 1) > 0 =>
         Launches = 2 /\ attempts[1].cancelled
    /\ Exited /\ argsOk /\ Last(attempts).exitCode # 0 =>
         RunMeta.result = "fallback"

\* C14 witness: without a credential, attempt 1 timed out with a job id, its
\* status dump holds the 401 result, the cancel call was made, attempt 2 ran
\* and RunMeta was written.
C14_Witness ==
  /\ ~apiKey
  /\ Exited
  /\ MetaWritten
  /\ Launches = 2
  /\ attempts[1].cancelled
  /\ attempts[1].jobId # Null
  /\ attempts[2].jobId # Null
  /\ files.status = ResponsePayload(attempts[2].jobId, NoKeyResponse)

\* C15: in RunMeta, fallback is "scrape" exactly when Result = fallback (the
\* last attempt ended non-zero), and then fallbackReason is stalled or
\* failed; with Result success, violations or failed, fallback is null.
C15_FallbackFieldIffFallbackResult ==
  MetaWritten =>
    /\ (RunMeta.fallback = "scrape") <=> (RunMeta.result = "fallback")
    /\ RunMeta.result = "fallback" =>
         /\ RunMeta.fallbackReason \in {"stalled", "failed"}
         /\ Last(RunMeta.attempts).exitCode # 0
    /\ RunMeta.result \in {"success", "violations", "failed"} =>
         RunMeta.fallback = Null

\* C15 witness: a run whose attempt 1 stalled and whose attempt 2 exited 0
\* with a listing in the output: Result = violations, fallback null.
C15_Witness ==
  /\ MetaWritten
  /\ Len(attempts) = 2
  /\ fallbackReason = "stalled"
  /\ RunMeta.result = "violations"
  /\ RunMeta.fallback = Null

\* The artifact files of the slug's directory the orchestrator or its
\* subprocess writes.
ArtifactNames == {"crawl", "status", "errors", "violations"}

\* C16: at exit with Result other than failed, an artifact listed in
\* RunMeta.artifacts exists, an artifact that exists (status.json,
\* errors.json and violations.json exist only when this run wrote them) is
\* listed, and Result = violations comes with a listed violations.json whose
\* reasons are RunMeta.violations.
C16_ArtifactsConsistent ==
  Exited /\ MetaWritten /\ RunMeta.result # "failed" =>
    /\ \A a \in ArtifactNames : RunMeta.artifacts[a] => Exists(files[a])
    /\ \A a \in ArtifactNames : Exists(files[a]) => RunMeta.artifacts[a]
    /\ RunMeta.result = "violations" =>
         /\ RunMeta.artifacts.violations
         /\ files.violations.reasons = RunMeta.violations

\* A step of the pipeline with this label was started.
StepRan(label) == \E k \in DOMAIN pipe.steps : pipe.steps[k].label = label

\* The crawl step of the pipeline has ended.
CrawlEnded == pipe.crawlStatus # 0 - 1

\* meta.json carries the fallback marking.
Marked(meta) ==
  meta # Unreadable /\ (meta.fallback = "scrape" \/ meta.result = "fallback")

\* C17: in the pipeline the scrape fallback step is started only after the
\* crawl step (never in scrape mode), exactly when the crawl step's code is
\* neither 0 nor 2 and meta.json carries the fallback marking, once, with the
\* url and slug of the crawl step; a crawl code 2 ends the pipeline with 2
\* and neither the fallback nor the generator is started; another non-zero
\* code without the marking ends the pipeline with that code.
C17_ScrapeFallbackHandOff ==
  /\ StepRan("scrape-fallback") => CrawlEnded
  /\ StepRan("crawl") => pipe.mode # "scrape"
  /\ CrawlEnded =>
       /\ StepRan("scrape-fallback") <=>
            (pipe.crawlStatus \notin {0, 2} /\ Marked(pipe.metaAfterCrawl))
       /\ \A k \in DOMAIN pipe.steps :
            pipe.steps[k].label = "scrape-fallback" =>
              /\ \E j \in 1..(k - 1) :
                   /\ pipe.steps[j].label = "crawl"
                   /\ pipe.steps[j].url = pipe.steps[k].url
                   /\ pipe.steps[j].slug = pipe.steps[k].slug
              /\ \A j \in DOMAIN pipe.steps :
                   pipe.steps[j].label = "scrape-fallback" => j = k
       /\ pipe.crawlStatus = 2 =>
            /\ pipe.pc = "exited"
            /\ pipe.exit = 2
            /\ ~StepRan("scrape-fallback")
            /\ ~StepRan("generate")
       /\ pipe.crawlStatus \notin {0, 2} /\ ~Marked(pipe.metaAfterCrawl) =>
            /\ pipe.pc = "exited"
            /\ pipe.exit = pipe.crawlStatus

\* C17 witness: the crawl step ended with 137 and meta.json marked for the
\* scrape fallback; the fallback step ran and the generator was started.
C17_Witness ==
  /\ pipe.crawlStatus = ForcedExitCode
  /\ pipe.metaAfterCrawl = PipeMeta("scrape", "fallback")
  /\ StepRan("scrape-fallback")
  /\ StepRan("generate")

\* The crawl subprocesses that are alive.
AliveChildren == {i \in Attempts : run[i].alive}

\* C18: cleanupChildren never throws, a second call in a row changes nothing
\* the first call did, and a handler that called it once or twice (SIGINT or
\* SIGTERM handler then the exit listener, or the exit listener alone)
\* leaves terminated exactly what one call terminates: the whole group when
\* the orchestrator leads it, nothing otherwise.
C18_CleanupIdempotent ==
  /\ [](~proc.threw /\ proc.orch # "crashed")
  /\ [](LET once == cleanupChildren(ProcState)
            twice == cleanupChildren(once)
        IN /\ twice.alive = once.alive
           /\ twice.orch = once.orch
           /\ ~twice.threw)
  /\ [][proc'.calls > proc.calls =>
          /\ proc'.calls \in 1..2
          /\ AliveChildren' = (IF groupLeader THEN {} ELSE AliveChildren)
          /\ (proc'.orch = "killed") <=> groupLeader]_vars

\* C18 witness: SIGTERM arrived while a child was alive and the orchestrator
\* did not lead its group: the handler and the exit listener both called
\* cleanupChildren, both kills failed with ESRCH and were caught.
C18_Witness ==
  /\ proc.received = "SIGTERM"
  /\ proc.calls = 2
  /\ proc.caught = 2
  /\ proc.orch = "exited"
  /\ run[1].alive

\* C19: an attempt has a result exactly when it is resolved; the step that
\* resolves it is the 2s timer (forced result), the 'error' event (error
\* result) or the 'exit' event (exit result), with the jobId and timedOut of
\* that moment; and once resolved, no event and no timer changes the result.
C19_ResolvesExactlyOnce ==
  /\ [](\A i \in Attempts : run[i].resolved <=> run[i].result # NoResult)
  /\ [][\A i \in Attempts :
          run[i].resolved =>
            run'[i].resolved /\ run'[i].result = run[i].result]_vars
  /\ [][\A i \in Attempts :
          ~run[i].resolved /\ run'[i].resolved =>
            /\ run'[i].result.jobId = run[i].jobId
            /\ run'[i].result.forced <=>
                 (run[i].forceTimer = "armed" /\ run'[i].forceTimer = "fired")
            /\ run'[i].result.error <=>
                 (run[i].errorPending /\ ~run'[i].errorPending)
            /\ ~run'[i].result.forced /\ ~run'[i].result.error =>
                 run[i].alive /\ ~run'[i].alive
            /\ ~run'[i].result.forced =>
                 run'[i].result.timedOut = run[i].timedOut]_vars

\* C19 witness: the attempt was resolved by the 2s timer and the child's
\* exit arrived afterwards; the result is still the forced one.
C19_Witness ==
  /\ run[1].resolved
  /\ run[1].result.forced
  /\ ExitReported(run[1])

\* C20: the signals of an attempt are SIGTERM, then SIGKILL, each at most
\* once: SIGTERM is sent by the (T+5)s timer, which sets timedOut; SIGKILL by
\* the timer armed 5s after SIGTERM; a forced result comes from the timer
\* armed 2s after SIGKILL; once the attempt is resolved no signal is sent;
\* without a timeout (absent, non-numeric or not positive) no signal is sent
\* and the attempt is resolved by exit or error only.
C20_EscalationOrder ==
  /\ [](\A i \in Attempts :
          LET r == run[i]
          IN /\ r.signals \in {<< >>, <<"SIGTERM">>, <<"SIGTERM", "SIGKILL">>}
             /\ r.timedOut <=> r.signals # << >>
             /\ r.signals # << >> =>
                  /\ r.timeoutId = "fired"
                  /\ r.timeoutMs = (cfg.timeout.v + 5) * 1000
             /\ Len(r.signals) = 2 =>
                  r.killTimeoutId = "fired" /\ r.killMs = 5000
             /\ r.resolved /\ r.result.forced =>
                  /\ r.signals = <<"SIGTERM", "SIGKILL">>
                  /\ r.forceTimer = "fired"
                  /\ r.forceMs = 2000
             /\ ~(IsNumber(cfg.timeout) /\ cfg.timeout.v > 0) =>
                  /\ r.signals = << >>
                  /\ r.resolved => ~r.result.forced)
  /\ [][\A i \in Attempts :
          run'[i].signals # run[i].signals =>
            \/ /\ run[i].signals = << >>
               /\ run'[i].signals = <<"SIGTERM">>
               /\ run[i].timeoutId = "armed"
               /\ run'[i].timeoutId = "fired"
            \/ /\ run[i].signals = <<"SIGTERM">>
               /\ run'[i].signals = <<"SIGTERM", "SIGKILL">>
               /\ run[i].killTimeoutId = "armed"
               /\ run'[i].killTimeoutId = "fired"]_vars
  /\ [][\A i \in Attempts :
          run[i].resolved => run'[i].signals = run[i].signals]_vars

\* C20 witness: the child exited between SIGTERM and SIGKILL; the 5s timer
\* was cleared and SIGKILL was never sent.
C20_Witness ==
  /\ run[1].resolved
  /\ ~run[1].result.forced
  /\ run[1].signals = <<"SIGTERM">>
  /\ run[1].killTimeoutId = "cleared"
  /\ ExitReported(run[1])

\* The place in the log of the last (kind, what) of attempt n; 0 when absent.
LastOpIndex(kind, what, n) ==
  LET at == {k \in DOMAIN oplog : oplog[k] = Op(kind, what, n)}
  IN IF at = {} THEN 0 ELSE CHOOSE k \in at : \A j \in at : k >= j

ViolationProduced ==
  \/ CountOps(oplog, "write", "violations.json") > 0
  \/ Exists(files.violations)
  \/ MetaWritten /\ (RunMeta.violations # << >> \/ RunMeta.result = "violations")

\* C22: a Violation is produced only in a run whose last attempt exited 0
\* and whose crawl.json parsed as JSON; and once main has left the attempt
\* loop (the scan is done after it) no subprocess is launched.
C22_ScanOnlyAfterParsedOutput ==
  /\ [](ViolationProduced =>
          /\ success
          /\ Last(attempts).exitCode = 0
          /\ files.crawl.kind = "json"
          /\ Exited)
  /\ [][(pc \in {"finalize", "exited"}) =>
          /\ Launches' = Launches
          /\ (\A i \in Attempts : run'[i].spawned = run[i].spawned)]_vars

\* C22 witness: attempt 2 exited 0, the parsed output held a listing, and
\* the run ended with violations.json written after two launches.
C22_Witness ==
  /\ Exited
  /\ Launches = 2
  /\ attempts[2].exitCode = 0
  /\ CountOps(oplog, "write", "violations.json") = 1
  /\ RunMeta.result = "violations"

\* The two flags of the policy scan on one page record.
UrlFlagged(page) == IsString(page.url) /\ MatchesForbidden(page.url)
ContentFlagged(page) ==
  page.text.strong \/ (page.text.content /\ page.text.price)

\* The url a Violation entry carries for a page record.
EntryUrl(page) == IF IsString(page.url) THEN page.url ELSE UnknownUrl

\* The run scanned a parsed crawl.json and ended.
Scanned ==
  /\ Exited
  /\ success
  /\ files.crawl.kind = "json"
  /\ MetaWritten

\* C23: after a scan, the recorded violations (RunMeta.violations, and
\* violations.json when it was written) hold an entry for every page whose
\* URL has a forbidden segment and an entry for every page whose text matches
\* the content rule, whatever the other check found.
C23_EveryFlagRecorded ==
  Scanned =>
    LET pages == files.crawl.pages
        recorded == RunMeta.violations
    IN /\ \A i \in DOMAIN pages :
            UrlFlagged(pages[i]) =>
              \E k \in DOMAIN recorded :
                recorded[k] = [url |-> pages[i].url, reason |-> UrlReason]
       /\ \A i \in DOMAIN pages :
            ContentFlagged(pages[i]) =>
              \E k \in DOMAIN recorded : recorded[k].url = EntryUrl(pages[i])
       /\ recorded # << >> =>
            /\ Exists(files.violations)
            /\ files.violations.reasons = recorded

\* The entries the content rule calls for, in page order: one per flagged
\* page, the listing-field reason whenever the strong pattern matches.
ContentEntries(pages) ==
  LET flagged == SelectSeq(pages, ContentFlagged)
  IN [k \in 1..Len(flagged) |->
        [url |-> EntryUrl(flagged[k]),
         reason |-> IF flagged[k].text.strong THEN StrongReason
                    ELSE PriceReason]]

CleanUrls(pages) == \A i \in DOMAIN pages : ~UrlFlagged(pages[i])

\* C24: when no page URL is forbidden, the recorded violations are exactly
\* one entry per page whose text matches the strong pattern, or a content
\* keyword together with the price pattern; the reason is the listing-field
\* one whenever the strong pattern matches and the price one otherwise; the
\* run ends with violations and exit 2 exactly when there is such a page.
C24_ContentRule ==
  Scanned /\ CleanUrls(files.crawl.pages) =>
    /\ RunMeta.violations = ContentEntries(files.crawl.pages)
    /\ (RunMeta.result = "violations") <=> (RunMeta.violations # << >>)
    /\ (exitCode = ViolationExitCode) <=> (RunMeta.violations # << >>)
    /\ (exitCode = 0) <=> (RunMeta.violations = << >>)

\* C24 witness: a scan of clean URLs with a page matching all three patterns
\* (recorded with the listing-field reason), a page matching content keyword
\* and price only (recorded with the price reason).
C24_Witness ==
  /\ Scanned
  /\ CleanUrls(files.crawl.pages)
  /\ Len(files.crawl.pages) = 2
  /\ files.crawl.pages[1].text = Text(TRUE, TRUE, TRUE)
  /\ files.crawl.pages[2].text = Text(FALSE, TRUE, TRUE)
  /\ RunMeta.violations[1].reason = StrongReason
  /\ RunMeta.violations[2].reason = PriceReason

\* Attempt k ended non-zero and no job id was captured.
FailedWithoutJobId(k) ==
  /\ k \in DOMAIN attempts
  /\ ~exitedZero(attempts[k])
  /\ attempts[k].jobId = Null

\* C25: for an attempt that ended non-zero without a job id, no status,
\* errors or cancel request is made, status.json and errors.json are written
\* with the missing-job-id payload, the attempt is classified stalled exactly
\* when it timed out (attempt 1 is retried exactly then, the last attempt
\* gives the fallback its reason), and a run ending with it writes RunMeta
\* with result fallback and exits with the attempt's code.
C25_NoJobIdStillClassifies ==
  \A k \in Attempts :
    FailedWithoutJobId(k) =>
      /\ OpIndex("GET", "status", k) = 0
      /\ OpIndex("GET", "errors", k) = 0
      /\ OpIndex("call", "cancelCrawl", k) = 0
      /\ OpIndex("DELETE", "crawl", k) = 0
      /\ ~attempts[k].cancelled
      /\ OpIndex("write", "status.json", k) > 0
      /\ OpIndex("write", "errors.json", k) = OpIndex("write", "status.json", k) + 1
      /\ k = Len(attempts) =>
           /\ files.status = MissingJobPayload
           /\ files.errors = MissingJobPayload
           /\ pc \in {"classify", "spawn", "await", "finalize", "exited"}
      /\ Classified(k) =>
           /\ attempts[k].status = Null
           /\ k = Len(attempts) =>
                fallbackReason = IF attempts[k].timedOut THEN "stalled" ELSE "failed"
           /\ k = 1 => (attempts[k].timedOut <=> attempt = 2)
           /\ k = 1 /\ attempts[k].timedOut /\ pc # "spawn" =>
                OpIndex("spawn", "firecrawl", 2) > 0
           /\ k = 1 /\ ~attempts[k].timedOut => Launches = 1
           /\ (k = 2 \/ ~attempts[k].timedOut) =>
                /\ fallbackNeeded
                /\ pc \in {"finalize", "exited"}
      /\ Exited /\ k = Len(attempts) =>
           /\ MetaWrites = 1
           /\ RunMeta.result = "fallback"
           /\ RunMeta.fallback = "scrape"
           /\ RunMeta.attempts = attempts
           /\ exitCode = attempts[k].exitCode

\* C25 witness: attempt 1 timed out without a job id and was retried,
\* attempt 2 failed without a job id and without a timeout, and the run
\* ended as a fallback.
C25_Witness ==
  /\ Exited
  /\ Len(attempts) = 2
  /\ FailedWithoutJobId(1)
  /\ FailedWithoutJobId(2)
  /\ attempts[1].timedOut
  /\ ~attempts[2].timedOut
  /\ RunMeta.result = "fallback"
  /\ RunMeta.fallbackReason = "failed"

\* C26: a run in which every attempt that exited 0 is recorded with
\* timedOut = true (the timeout guard fired before the exit) does not end
\* with Result = success.
C26_TimedOutNeverSuccess ==
  (/\ Exited
   /\ MetaWritten
   /\ \A k \in DOMAIN attempts :
        attempts[k].exitCode = 0 => attempts[k].timedOut)
  => RunMeta.result # "success"

\* C27: the job id an attempt holds and reports is null or the complete
\* identifier the child printed after 'Job ID:', however the output is split
\* into chunks and interleaved between stdout and stderr.
C27_JobIdNullOrComplete ==
  \A i \in Attempts :
    /\ run[i].jobId \in {Null, Join(PrintedId)}
    /\ run[i].resolved => run[i].result.jobId \in {Null, Join(PrintedId)}

\* C28: in RunMeta, fallbackReason is non-null only together with
\* fallback = "scrape"; a run that ends with Result = success records
\* fallbackReason = null.
C28_FallbackReasonOnlyWithFallback ==
  MetaWritten =>
    /\ RunMeta.fallbackReason # Null => RunMeta.fallback = "scrape"
    /\ RunMeta.result = "success" => RunMeta.fallbackReason = Null

\* The caller observes the code the orchestrator gave to process.exit: the
\* process ended by exiting, not by a signal.
CallerSeesExitCode == proc.orch = "exited"

\* C29: whenever the orchestrator has ended, the caller observes the code it
\* chose (130 after SIGINT, 143 after SIGTERM, otherwise the code main gave
\* to process.exit), whether or not the orchestrator leads its process group.
C29_ExitCodePreserved ==
  Exited =>
    /\ CallerSeesExitCode
    /\ proc.received = "SIGINT" => exitCode = InterruptExitCode
    /\ proc.received = "SIGTERM" => exitCode = TerminateExitCode

\* The pipeline ended right after its crawl step: at the crawlStatus checks
\* of lines 102-126 or at the checks of lines 146-154.
EndedAfterCrawl ==
  /\ pipe.pc = "exited"
  /\ pipe.steps # << >>
  /\ Last(pipe.steps).label = "crawl"

\* C30: a pipeline run that ends with exit code 2 after its crawl step is a
\* run whose crawl found a policy violation, whatever earlier runs left in
\* the directory of the slug and whatever code the crawl returned.
C30_ExitTwoOnlyOnDetection ==
  EndedAfterCrawl /\ pipe.exit = PipeViolationExit => "crawl" \in pipe.found
====
